---- MODULE Spec2Model ----
(***************************************************************************)
(* Campaign contracts of zk-crowdfund.                                     *)
(*                                                                         *)
(* Two crates implement the crowdfunding campaign:                         *)
(*   contracts/zk-crowdfund   (status Active/Computing/Completed)          *)
(*   zk-crowdfunding          (status Setup/Active/Computing/Completed)    *)
(* Every entry point runs to completion as one transaction; an entry point *)
(* that panics leaves the contract state and the ZK state as they were.    *)
(* The host runtime (secret inputs, computations, declassification, token  *)
(* callbacks) is the environment: it confirms pending inputs, runs the     *)
(* started computation, delivers opened variables and answers token calls  *)
(* at times of its own choosing.                                           *)
(***************************************************************************)
EXTENDS Integers, Sequences, FiniteSets, TLC

VARIABLES
    variant,            \* the crate that is deployed
    state,              \* ContractState
    calculation_state,  \* zk_state.calculation_state
    pending_inputs,     \* zk_state.pending_inputs
    secret_variables,   \* zk_state.secret_variables, in id order
    computation,        \* the computation started and not yet completed
    open_requests,      \* OpenVariables requests not yet delivered
    token_calls,        \* token contract calls issued so far, with their callbacks
    block_time,         \* context.block_production_time
    plain_inputs,       \* whether the host fills in ZkClosed.data of a confirmed input
    last                \* the latest invocation and whether it returned or panicked

vars == <<variant, state, calculation_state, pending_inputs, secret_variables,
          computation, open_requests, token_calls, block_time, plain_inputs, last>>

\* What no invocation changes.
env_vars == <<variant, plain_inputs>>

zk_vars == <<calculation_state, pending_inputs, secret_variables, computation,
             open_requests>>

----------------------------------------------------------------------------
(* Bounds of the model. *)

MaxInputs == 2       \* secret inputs submitted over a run
MaxDeposits == 1     \* token deposits asked for over a run
MaxWithdrawals == 2  \* withdrawals issued over a run
MaxRefunds == 1      \* refunds asked for over a run
MaxTime == 2         \* block_production_time runs 1..MaxTime
MaxRefundClaims == 2 \* refund transfers of zk-crowdfunding over a run

(* Program constants. *)

MaxOutputs == 3

DefaultFundingTarget == 1000
CONTRIBUTION_VARIABLE_KIND == 0

(* Inputs are drawn from these sets. *)

ZkCrowdfund == "contracts/zk-crowdfund"
ZkCrowdfunding == "zk-crowdfunding"
Owner == "owner"
Addresses == {"owner", "alice"}
TokenAddress == "token"
ContractAddress == "campaign"
SecretAmounts == {1, 1500}
RefundAmounts == {0, 1}
FundingTargets == {2, 2000}
TokenAmounts == {0, 1}

None == [some |-> FALSE]
Some(x) == [some |-> TRUE, val |-> x]

----------------------------------------------------------------------------
(* Numbers and bytes.                                                      *)
(* A 32-bit secret value is held as the Sbi32 reading of its bit pattern.  *)
(* A u128 (and a u32 widened to it) is held as its base-10000 digits, the  *)
(* lowest first and the highest not 0, so that 0 is <<>>: the integers of  *)
(* the checker stop at 2^31 - 1.                                           *)

Base == 10000

RECURSIVE Nat128(_)
Nat128(n) == IF n = 0 THEN <<>> ELSE <<n % Base>> \o Nat128(n \div Base)

Digit(a, i) == IF i <= Len(a) THEN a[i] ELSE 0

RECURSIVE AddFrom(_, _, _, _)
AddFrom(a, b, i, carry) ==
    IF i > Len(a) /\ i > Len(b)
    THEN IF carry = 0 THEN <<>> ELSE <<carry>>
    ELSE LET d == Digit(a, i) + Digit(b, i) + carry
         IN  <<d % Base>> \o AddFrom(a, b, i + 1, d \div Base)

\* a + b
Add128(a, b) == AddFrom(a, b, 1, 0)

RECURSIVE GeFrom(_, _, _)
GeFrom(a, b, i) ==
    IF i = 0 THEN TRUE
    ELSE IF a[i] # b[i] THEN a[i] > b[i]
    ELSE GeFrom(a, b, i - 1)

\* a >= b
Ge128(a, b) ==
    IF Len(a) # Len(b) THEN Len(a) > Len(b) ELSE GeFrom(a, b, Len(a))

\* a > 0
Positive128(a) == a # <<>>

\* a * 1_000_000_000_000
TimesTokenUnit(a) == IF a = <<>> THEN <<>> ELSE <<0, 0, 0>> \o a

\* Sbu32 + Sbu32 on bit patterns: the sum modulo 2^32.
WrappingAdd(a, b) ==
    IF a >= 0 /\ b >= 0 /\ a > 2147483647 - b
    THEN (a - 2147483647 - 1) + (b - 2147483647 - 1)
    ELSE IF a < 0 /\ b < 0 /\ a < (-2147483647 - 1) - b
    THEN (a + 2147483647 + 1) + (b + 2147483647 + 1)
    ELSE a + b

\* Sbu32 >= Sbu32 on bit patterns.
GeU32(a, b) == IF (a >= 0) = (b >= 0) THEN a >= b ELSE a < 0

\* The four-byte little-endian plaintext of an opened 32-bit variable.
ToLeBytes(v) ==
    [i \in 1..4 |-> (v \div (256 ^ (i - 1))) % 256]

\* <u32>::from_le_bytes, widened.
FromLeBytes(b) ==
    Add128(Nat128(b[1] + 256 * b[2] + 65536 * b[3]),
           Add128(Nat128(8388608 * b[4]), Nat128(8388608 * b[4])))

\* read_variable_u32_le panics unless the variable carries exactly four bytes.
CanRead(variable) ==
    /\ variable.data.some
    /\ Len(variable.data.val) = 4

read_variable_u32_le(variable) == FromLeBytes(variable.data.val)

\* The Sbu32 sum of a sequence of 32-bit values, from 0.
RECURSIVE SumU32(_)
SumU32(s) == IF s = <<>> THEN 0 ELSE WrappingAdd(SumU32(SubSeq(s, 1, Len(s) - 1)), s[Len(s)])

SelectKind(vars_, kind) == SelectSeq(vars_, LAMBDA v : v.metadata.kind = kind)

\* zk_state.secret_variables filtered on Contribution metadata, counted.
CountContributions == Len(SelectKind(secret_variables, "Contribution"))

get_variable(id) == secret_variables[id]

\* The #[discriminant] of a SecretVarType, which is what load_metadata::<u8> reads.
Discriminant(metadata) ==
    CASE metadata.kind = "Contribution" -> 0
      [] metadata.kind = "SumResult" -> 1
      [] metadata.kind = "RefundProof" -> 2
      [] OTHER -> 255

----------------------------------------------------------------------------
(* The secure computations. *)

\* zk-crowdfunding's zk_compute::sum_contributions: the sum of the Contribution
\* variables.
sum_contributions(variables) ==
    LET picked == SelectSeq(variables, LAMBDA v : v.metadata.kind = "Contribution")
    IN  SumU32([i \in 1..Len(picked) |-> picked[i].value])

load_funding_target_from_metadata == DefaultFundingTarget

\* Step 1 of threshold_check_and_conditional_reveal: the Sbu32 sum of every
\* variable whose metadata kind is CONTRIBUTION_VARIABLE_KIND.
TotalContributions(variables) ==
    LET picked == SelectSeq(variables,
                    LAMBDA v : Discriminant(v.metadata) = CONTRIBUTION_VARIABLE_KIND)
    IN  SumU32([i \in 1..Len(picked) |-> picked[i].value])

\* zk_compute.rs, shortname 0x61: returns (funding_target, threshold_met,
\* conditional_total).
threshold_check_and_conditional_reveal(variables) ==
    LET total_contributions == TotalContributions(variables)
        funding_target == load_funding_target_from_metadata
        meets_threshold == GeU32(total_contributions, funding_target)
        threshold_met == IF meets_threshold THEN 1 ELSE 0
        conditional_total == IF meets_threshold THEN total_contributions ELSE 0
    IN  <<funding_target, threshold_met, conditional_total>>

----------------------------------------------------------------------------
(* What an invocation returns, and what the host does with it. *)

\* The invocation returned.
Return(op) == last' = [op |-> op, ok |-> TRUE]

\* The action that sender invoked returned.
Returned(op, sender) == last' = [op |-> op, ok |-> TRUE, sender |-> sender]

PanicKeepsWrite(op, sender) ==
    /\ last' = [op |-> op, ok |-> FALSE, sender |-> sender]
    /\ state' = [state EXCEPT !.num_contributors = Some(0)]
    /\ UNCHANGED <<env_vars, zk_vars, token_calls, block_time>>

\* The invocation by sender panicked: the transaction is rolled back.
Panic(op, sender) ==
    /\ last' = [op |-> op, ok |-> FALSE, sender |-> sender]
    /\ UNCHANGED <<env_vars, state, zk_vars, token_calls, block_time>>

\* A token call built with EventGroup::builder(), as the token contract sees it.
TokenCall(fn, from, to, amount) ==
    [fn |-> fn, from |-> from, to |-> to, amount |-> amount]

\* The host records each issued call with the action that issued it and the
\* state of its callback: "none", "pending", "ok" or "failed".
Issued(call, origin, cb) ==
    [fn |-> call.fn, from |-> call.from, to |-> call.to, amount |-> call.amount,
     origin |-> origin, cb |-> cb]

\* ZkStateChange::start_computation
start_computation(function, output_metadata, on_complete) ==
    [function |-> function, output_metadata |-> output_metadata,
     on_complete |-> on_complete, outputs |-> <<>>]

InputsSubmitted == Len(pending_inputs) + CountContributions

\* The token calls issued so far by one action.
CallsBy(origin) == SelectSeq(token_calls, LAMBDA c : c.origin = origin)

\* Refund computations that the nodes have run so far (one RefundProof output
\* each).
RefundsStarted == Len(SelectKind(secret_variables, "RefundProof"))

Remove(s, i) == SubSeq(s, 1, i - 1) \o SubSeq(s, i + 1, Len(s))

Range(s) == {s[i] : i \in 1..Len(s)}

\* What the nodes compute for a started computation. The refund computation
\* (shortname 0x62) is defined nowhere: its one output is left open.
ComputationResults(c, variables) ==
    CASE c.function = "threshold_check_and_conditional_reveal" ->
            {threshold_check_and_conditional_reveal(variables)}
      [] c.function = "sum_contributions" ->
            {<<sum_contributions(variables)>>}
      [] OTHER ->
            {<<v>> : v \in RefundAmounts}

\* The contract declares one metadata entry per output variable it expects and
\* the computation returns a tuple of its own length: the host makes as many
\* output variables as the one or as the other, the first returned value first.
OutputCounts(c, outputs) == {Len(c.output_metadata), Len(outputs)}

OutputIds(n) == [i \in 1..n |-> Len(secret_variables) + i]

\* The number of bytes the nodes deliver for an opened 32-bit output: the four
\* that read_variable_u32_le expects, or fewer.
PayloadWidths == {3, 4}

\* Output variable i holds the i-th returned value (field output) under the
\* i-th declared metadata; width is the number of bytes it opens to.
OutputVariables(c, outputs, n, width) ==
    [i \in 1..n |->
        [id |-> Len(secret_variables) + i,
         owner |-> ContractAddress,
         metadata |-> IF i <= Len(c.output_metadata)
                      THEN c.output_metadata[i] ELSE [kind |-> "Unspecified"],
         value |-> outputs[i],
         data |-> None,
         output |-> i,
         width |-> width]]

\* The nodes run the computation over the variables confirmed by then and
\* make the output variables.
compute(n) ==
    /\ calculation_state = "Calculating"
    /\ \E outputs \in ComputationResults(computation.val, secret_variables),
          width \in PayloadWidths :
          /\ n \in OutputCounts(computation.val, outputs)
          /\ secret_variables' =
                secret_variables \o OutputVariables(computation.val, outputs, n, width)
          /\ computation' = Some([computation.val EXCEPT !.outputs = OutputIds(n)])
    /\ calculation_state' = "Output"
    /\ UNCHANGED <<env_vars, state, pending_inputs, open_requests,
                   token_calls, block_time, last>>

\* ZkClosed.data of a variable that was confirmed and never opened.
InputData(value) == IF plain_inputs THEN Some(ToLeBytes(value)) ELSE None

\* The variables as the hook sees them once the listed ones are opened.
Opened(ids) ==
    [i \in 1..Len(secret_variables) |->
        IF i \in Range(ids)
        THEN [secret_variables[i] EXCEPT
                !.data = Some(SubSeq(ToLeBytes(secret_variables[i].value), 1,
                                     secret_variables[i].width))]
        ELSE secret_variables[i]]

----------------------------------------------------------------------------
(* contracts/zk-crowdfund/src/contract.rs *)

Aborted == [aborted |-> TRUE]
Titles == {"", "Campaign"}
Descriptions == {"", "A campaign"}

InitializeUnchecked(sender, title, description, token_address, funding_target) ==
    [owner |-> sender,
     title |-> title,
     description |-> description,
     token_address |-> token_address,
     funding_target |-> funding_target,
     status |-> "Active",
     total_raised |-> None,
     num_contributors |-> None,
     is_successful |-> FALSE]

initialize(sender, title, description, token_address, funding_target) ==
    IF title = "" \/ description = "" \/ ~Positive128(funding_target)
    THEN Aborted
    ELSE [owner |-> sender,
          title |-> title,
          description |-> description,
          token_address |-> token_address,
          funding_target |-> funding_target,
          status |-> "Active",
          total_raised |-> None,
          num_contributors |-> None,
          is_successful |-> FALSE]

InfoWithTotal(campaign) ==
    [owner |-> campaign.owner,
     title |-> campaign.title,
     description |-> campaign.description,
     token_address |-> campaign.token_address,
     funding_target |-> campaign.funding_target,
     status |-> campaign.status,
     total_raised |-> Some(IF campaign.total_raised.some
                           THEN campaign.total_raised.val ELSE Nat128(0)),
     num_contributors |-> campaign.num_contributors,
     is_successful |-> campaign.is_successful]

\* The CampaignPublicInfo that get_campaign_info builds from the state.
CampaignPublicInfo(campaign) ==
    [owner |-> campaign.owner,
     title |-> campaign.title,
     description |-> campaign.description,
     token_address |-> campaign.token_address,
     funding_target |-> campaign.funding_target,
     status |-> campaign.status,
     total_raised |-> campaign.total_raised,
     num_contributors |-> campaign.num_contributors,
     is_successful |-> campaign.is_successful]

\* Shortname 0x10: returns the projection and nothing else.
get_campaign_info ==
    /\ variant = ZkCrowdfund
    /\ last' = [op |-> "get_campaign_info", ok |-> TRUE,
                info |-> CampaignPublicInfo(state)]
    /\ UNCHANGED <<env_vars, state, zk_vars, token_calls, block_time>>

AddContributionWhenever == FALSE

\* The assertion of add_contribution: TRUE when it fails.
AddContributionRejected == state.status # "Active"

add_contribution(sender, amount) ==
    /\ variant = ZkCrowdfund
    /\ IF AddContributionRejected
       THEN Panic("add_contribution", sender)
       ELSE LET metadata == [kind |-> "Contribution", owner |-> sender,
                             timestamp |-> block_time]
            IN  /\ InputsSubmitted < MaxInputs
                /\ pending_inputs' = Append(pending_inputs,
                        [owner |-> sender, metadata |-> metadata, value |-> amount])
                /\ Returned("add_contribution", sender)
                /\ UNCHANGED <<env_vars, state, calculation_state, secret_variables,
                               computation, open_requests, token_calls, block_time>>

ContributeTokensAnyAmount(amount) == state.status # "Active"

\* The assertions of contribute_tokens: TRUE when one of them fails.
ContributeTokensRejected(amount) ==
    \/ state.status # "Active"
    \/ ~Positive128(amount)

contribute_tokens(sender, amount) ==
    /\ variant = ZkCrowdfund
    /\ IF ContributeTokensRejected(amount)
       THEN Panic("contribute_tokens", sender)
       ELSE LET call == TokenCall("transfer_from", sender, ContractAddress, amount)
            IN  /\ Len(CallsBy("contribute_tokens")) < MaxDeposits
                /\ token_calls' = Append(token_calls,
                                         Issued(call, "contribute_tokens", "pending"))
                /\ Returned("contribute_tokens", sender)
                /\ UNCHANGED <<env_vars, state, zk_vars, block_time>>

CallbackAbsorbs(success) == FALSE

\* The callbacks panic when the token reports that the transfer failed.
CallbackPanics(success) == ~success

\* The callback of call k arrives with callback_ctx.success = success.
contribute_callback(k, success) ==
    /\ variant = ZkCrowdfund
    /\ token_calls[k].origin = "contribute_tokens"
    /\ token_calls[k].cb = "pending"
    /\ token_calls' = [token_calls EXCEPT ![k].cb = IF success THEN "ok" ELSE "failed"]
    /\ last' = IF CallbackPanics(success)
               THEN [op |-> "contribute_callback", ok |-> FALSE, sender |-> TokenAddress]
               ELSE [op |-> "contribute_callback", ok |-> TRUE]
    /\ UNCHANGED <<env_vars, state, zk_vars, block_time>>

\* The host confirms pending input i and calls the hook, which returns the state.
inputted_variable(i) ==
    /\ variant = ZkCrowdfund
    /\ LET input == pending_inputs[i]
           id == Len(secret_variables) + 1
       IN  /\ secret_variables' = Append(secret_variables,
                   [id |-> id, owner |-> input.owner, metadata |-> input.metadata,
                    value |-> input.value, data |-> InputData(input.value)])
           /\ pending_inputs' = SubSeq(pending_inputs, 1, i - 1)
                                   \o SubSeq(pending_inputs, i + 1, Len(pending_inputs))
    /\ Return("inputted_variable")
    /\ UNCHANGED <<env_vars, state, calculation_state, computation, open_requests,
                   token_calls, block_time>>

EndCampaignAnyStatus(sender, num_contributors) ==
    \/ sender # state.owner
    \/ calculation_state # "Waiting"
    \/ ~(num_contributors > 0)

EndCampaignEmpty(sender, num_contributors) ==
    \/ sender # state.owner
    \/ state.status # "Active"
    \/ calculation_state # "Waiting"

EndCampaignAnyCaller(sender, num_contributors) ==
    \/ state.status # "Active"
    \/ calculation_state # "Waiting"
    \/ ~(num_contributors > 0)

EndCampaignUnlessComputing(sender, num_contributors) ==
    \/ sender # state.owner
    \/ state.status = "Computing"
    \/ calculation_state # "Waiting"
    \/ ~(num_contributors > 0)

\* The assertions of end_campaign: TRUE when one of them fails.
EndCampaignRejected(sender, num_contributors) ==
    \/ sender # state.owner
    \/ state.status # "Active"
    \/ calculation_state # "Waiting"
    \/ ~(num_contributors > 0)

end_campaign(sender) ==
    /\ variant = ZkCrowdfund
    /\ LET num_contributors == CountContributions
       IN  IF EndCampaignRejected(sender, num_contributors)
           THEN Panic("end_campaign", sender)
           ELSE LET zk_change == start_computation(
                                    "threshold_check_and_conditional_reveal",
                                    <<[kind |-> "SumResult"]>>,
                                    "sum_compute_complete")
                IN  /\ state' = [state EXCEPT !.status = "Computing",
                                              !.num_contributors = Some(num_contributors)]
                    /\ calculation_state' = "Calculating"
                    /\ computation' = Some(zk_change)
                    /\ Returned("end_campaign", sender)
                    /\ UNCHANGED <<env_vars, pending_inputs, secret_variables,
                                   open_requests, token_calls, block_time>>

\* ZkStateChange::OpenVariables { variables }
OpenVariables(variables) == variables

\* Shortname 0x42 (the same code in both crates): the host hands over the
\* output variables and the hook asks to open them.
sum_compute_complete ==
    /\ calculation_state = "Output"
    /\ computation.val.on_complete = "sum_compute_complete"
    /\ LET output_variables == computation.val.outputs
       IN  /\ open_requests' = Append(open_requests, OpenVariables(output_variables))
           /\ Return("sum_compute_complete")
    /\ calculation_state' = "Waiting"
    /\ computation' = None
    /\ UNCHANGED <<env_vars, state, pending_inputs, secret_variables, token_calls,
                   block_time>>

\* Shortname 0x43.
refund_proof_complete ==
    /\ variant = ZkCrowdfund
    /\ calculation_state = "Output"
    /\ computation.val.on_complete = "refund_proof_complete"
    /\ LET output_variables == computation.val.outputs
       IN  IF output_variables = <<>>
           THEN Panic("refund_proof_complete", "node")
           ELSE /\ open_requests' = Append(open_requests,
                                           OpenVariables(output_variables))
                /\ Return("refund_proof_complete")
                /\ calculation_state' = "Waiting"
                /\ computation' = None
                /\ UNCHANGED <<env_vars, state, pending_inputs, secret_variables,
                               token_calls, block_time>>

RevealAlways(is_successful, total_raised) == Some(total_raised)

\* What open_variables stores in state.total_raised.
RevealedTotal(is_successful, total_raised) ==
    IF is_successful THEN Some(total_raised) ELSE None

\* #[zk_on_variables_opened]: the host delivers open request r.
open_variables(r) ==
    /\ variant = ZkCrowdfund
    /\ LET opened_variables == open_requests[r]
           zk_state == Opened(opened_variables)
           delivered == /\ secret_variables' = zk_state
                        /\ open_requests' = Remove(open_requests, r)
                        /\ UNCHANGED <<env_vars, calculation_state, pending_inputs,
                                       computation, block_time>>
       IN  IF opened_variables = <<>>
           THEN Panic("open_variables", "node")
           ELSE
           LET opened_variable == zk_state[opened_variables[1]]
           IN  CASE opened_variable.metadata.kind = "SumResult" ->
                    IF ~CanRead(opened_variable)
                    THEN Panic("open_variables", "node")
                    ELSE LET total_raised == read_variable_u32_le(opened_variable)
                             num_contributors == Len(SelectKind(zk_state, "Contribution"))
                             is_successful == Ge128(total_raised, state.funding_target)
                         IN  /\ state' = [state EXCEPT
                                    !.total_raised =
                                        RevealedTotal(is_successful, total_raised),
                                    !.num_contributors = Some(num_contributors),
                                    !.is_successful = is_successful,
                                    !.status = "Completed"]
                             /\ delivered
                             /\ Return("open_variables")
                             /\ UNCHANGED token_calls
                 [] /\ opened_variable.metadata.kind = "RefundProof"
                    /\ state.status = "Completed"
                    /\ ~state.is_successful ->
                    IF ~CanRead(opened_variable)
                    THEN Panic("open_variables", "node")
                    ELSE LET refund_amount == read_variable_u32_le(opened_variable)
                             owner == opened_variable.metadata.owner
                             token_refund_amount == TimesTokenUnit(refund_amount)
                             call == TokenCall("transfer", ContractAddress, owner,
                                               token_refund_amount)
                         IN  IF ~Positive128(refund_amount)
                             THEN Panic("open_variables", "node")
                             ELSE /\ Len(CallsBy("open_variables")) < MaxRefunds
                                  /\ token_calls' = Append(token_calls,
                                         Issued(call, "open_variables", "pending"))
                                  /\ delivered
                                  /\ Return("open_variables")
                                  /\ UNCHANGED state
                 [] OTHER ->
                    /\ delivered
                    /\ Return("open_variables")
                    /\ UNCHANGED <<state, token_calls>>

WithdrawByAnyone(sender) ==
    \/ state.status # "Completed"
    \/ ~state.is_successful

WithdrawWhenFailed(sender) ==
    \/ sender # state.owner
    \/ state.status # "Completed"

\* The assertions of withdraw_funds: TRUE when one of them fails.
WithdrawRejected(sender) ==
    \/ sender # state.owner
    \/ state.status # "Completed"
    \/ ~state.is_successful

withdraw_funds(sender) ==
    /\ variant = ZkCrowdfund
    /\ IF WithdrawRejected(sender)
       THEN Panic("withdraw_funds", sender)
       ELSE LET total_to_withdraw == IF state.total_raised.some
                                     THEN state.total_raised.val ELSE Nat128(0)
                call == TokenCall("transfer", ContractAddress, state.owner,
                                  total_to_withdraw)
            IN  /\ Len(CallsBy("withdraw_funds")) < MaxWithdrawals
                /\ token_calls' = Append(token_calls,
                                         Issued(call, "withdraw_funds", "none"))
                /\ Returned("withdraw_funds", sender)
                /\ UNCHANGED <<env_vars, state, zk_vars, block_time>>

ClaimRefundWhileComputing(sender) ==
    \/ state.status # "Completed"
    \/ state.is_successful
    \/ SelectKind(secret_variables, "Contribution") = <<>>

\* The assertions of claim_refund: TRUE when one of them fails.
ClaimRefundRejected(sender) ==
    \/ state.status # "Completed"
    \/ state.is_successful
    \/ calculation_state # "Waiting"
    \/ SelectKind(secret_variables, "Contribution") = <<>>

claim_refund(sender) ==
    /\ variant = ZkCrowdfund
    /\ IF ClaimRefundRejected(sender)
       THEN Panic("claim_refund", sender)
       ELSE LET state_change == start_computation(
                                   "refund_computation",
                                   <<[kind |-> "RefundProof", owner |-> sender]>>,
                                   "refund_proof_complete")
            IN  /\ RefundsStarted < MaxRefunds
                /\ calculation_state' = "Calculating"
                /\ computation' = Some(state_change)
                /\ Returned("claim_refund", sender)
                /\ UNCHANGED <<env_vars, state, pending_inputs, secret_variables,
                               open_requests, token_calls, block_time>>

\* The callback of refund call k arrives with callback_ctx.success = success.
refund_callback(k, success) ==
    /\ variant = ZkCrowdfund
    /\ token_calls[k].origin = "open_variables"
    /\ token_calls[k].cb = "pending"
    /\ token_calls' = [token_calls EXCEPT ![k].cb = IF success THEN "ok" ELSE "failed"]
    /\ last' = IF CallbackPanics(success)
               THEN [op |-> "refund_callback", ok |-> FALSE, sender |-> TokenAddress]
               ELSE [op |-> "refund_callback", ok |-> TRUE]
    /\ UNCHANGED <<env_vars, state, zk_vars, block_time>>

----------------------------------------------------------------------------
(* zk-crowdfunding/src/contract.rs *)

Deadlines == {0, 1}

zkc_initialize(sender, title, description, token, funding_target, deadline, now) ==
    IF \/ title = ""
       \/ description = ""
       \/ ~Positive128(funding_target)
       \/ ~(deadline > now)
    THEN Aborted
    ELSE [owner |-> sender,
          title |-> title,
          description |-> description,
          token_address |-> token,
          funding_target |-> funding_target,
          deadline |-> deadline,
          status |-> "Setup",
          total_raised |-> None,
          num_contributors |-> None,
          is_successful |-> FALSE,
          contributor_var_ids |-> <<>>]

\* SortedVecMap::contains_key
contains_key(map, key) == key \in DOMAIN map

\* SortedVecMap::insert
insert(map, key, value) ==
    [k \in DOMAIN map \cup {key} |-> IF k = key THEN value ELSE map[k]]

StartCampaignTakesOver(sender) ==
    /\ variant = ZkCrowdfunding
    /\ IF state.status # "Setup"
       THEN Panic("start_campaign", sender)
       ELSE /\ state' = [state EXCEPT !.status = "Active", !.owner = sender]
            /\ Returned("start_campaign", sender)
            /\ UNCHANGED <<env_vars, zk_vars, token_calls, block_time>>

StartCampaignFromAnyStatus(sender) == sender # state.owner

\* The assertions of start_campaign: TRUE when one of them fails.
StartCampaignRejected(sender) ==
    \/ sender # state.owner
    \/ state.status # "Setup"

start_campaign(sender) ==
    /\ variant = ZkCrowdfunding
    /\ IF StartCampaignRejected(sender)
       THEN Panic("start_campaign", sender)
       ELSE /\ state' = [state EXCEPT !.status = "Active"]
            /\ Returned("start_campaign", sender)
            /\ UNCHANGED <<env_vars, zk_vars, token_calls, block_time>>

zkc_add_contribution(sender, amount) ==
    /\ variant = ZkCrowdfunding
    /\ IF \/ state.status # "Active"
          \/ ~(block_time <= state.deadline)
          \/ contains_key(state.contributor_var_ids, sender)
       THEN Panic("add_contribution", sender)
       ELSE /\ InputsSubmitted < MaxInputs
            /\ pending_inputs' = Append(pending_inputs,
                    [owner |-> sender, metadata |-> [kind |-> "Contribution"],
                     value |-> amount])
            /\ Returned("add_contribution", sender)
            /\ UNCHANGED <<env_vars, state, calculation_state, secret_variables,
                           computation, open_requests, token_calls, block_time>>

\* The host confirms pending input i and calls the hook.
zkc_inputted_variable(i) ==
    /\ variant = ZkCrowdfunding
    /\ LET input == pending_inputs[i]
           inputted_variable_id == Len(secret_variables) + 1
           variable == [id |-> inputted_variable_id, owner |-> input.owner,
                        metadata |-> input.metadata, value |-> input.value,
                        data |-> InputData(input.value)]
           confirmed == /\ secret_variables' = Append(secret_variables, variable)
                        /\ pending_inputs' = Remove(pending_inputs, i)
                        /\ UNCHANGED <<env_vars, calculation_state, computation,
                                       open_requests, block_time>>
       IN  IF variable.metadata.kind = "Contribution"
           THEN IF ~CanRead(variable)
                THEN Panic("inputted_variable", "node")
                ELSE LET amount == read_variable_u32_le(variable)
                         call == TokenCall("transfer_from", variable.owner,
                                           ContractAddress, amount)
                     IN  /\ state' = [state EXCEPT !.contributor_var_ids =
                                         insert(@, variable.owner, inputted_variable_id)]
                         /\ token_calls' = IF Positive128(amount)
                                           THEN Append(token_calls,
                                                  Issued(call, "inputted_variable", "none"))
                                           ELSE token_calls
                         /\ confirmed
                         /\ Return("inputted_variable")
           ELSE /\ confirmed
                /\ Return("inputted_variable")
                /\ UNCHANGED <<state, token_calls>>

ZkcEndCampaignEmpty(sender, num_contributors) ==
    \/ (sender # state.owner /\ ~(block_time > state.deadline))
    \/ state.status # "Active"
    \/ calculation_state # "Waiting"

ZkcEndCampaignBeforeDeadline(sender, num_contributors) ==
    \/ state.status # "Active"
    \/ calculation_state # "Waiting"
    \/ ~(num_contributors > 0)

\* The assertions of end_campaign in zk-crowdfunding: TRUE when one fails.
ZkcEndCampaignRejected(sender, num_contributors) ==
    \/ (sender # state.owner /\ ~(block_time > state.deadline))
    \/ state.status # "Active"
    \/ calculation_state # "Waiting"
    \/ ~(num_contributors > 0)

zkc_end_campaign(sender) ==
    /\ variant = ZkCrowdfunding
    /\ LET num_contributors == CountContributions
       IN  IF ZkcEndCampaignRejected(sender, num_contributors)
           THEN Panic("end_campaign", sender)
           ELSE /\ state' = [state EXCEPT !.status = "Computing",
                                          !.num_contributors = Some(num_contributors)]
                /\ calculation_state' = "Calculating"
                /\ computation' = Some(start_computation("sum_contributions",
                                        <<[kind |-> "SumResult"]>>,
                                        "sum_compute_complete"))
                /\ Returned("end_campaign", sender)
                /\ UNCHANGED <<env_vars, pending_inputs, secret_variables,
                               open_requests, token_calls, block_time>>

OpenedTotalIfSuccessful(is_successful, total_raised) ==
    IF is_successful THEN Some(total_raised) ELSE None

\* What open_sum_variable stores in state.total_raised.
OpenedTotal(is_successful, total_raised) == Some(total_raised)

\* #[zk_on_variables_opened]: the host delivers open request r.
open_sum_variable(r) ==
    /\ variant = ZkCrowdfunding
    /\ LET opened_variables == open_requests[r]
           zk_state == Opened(opened_variables)
       IN  IF Len(opened_variables) # 1
           THEN Panic("open_sum_variable", "node")
           ELSE
           LET opened_variable == zk_state[opened_variables[1]]
           IN  IF opened_variable.metadata.kind = "SumResult"
               THEN IF ~CanRead(opened_variable)
                    THEN Panic("open_sum_variable", "node")
                    ELSE LET total_raised == read_variable_u32_le(opened_variable)
                             num_contributors == Len(SelectKind(zk_state, "Contribution"))
                             is_successful == Ge128(total_raised, state.funding_target)
                         IN  /\ state' = [state EXCEPT
                                    !.total_raised = OpenedTotal(is_successful, total_raised),
                                    !.num_contributors = Some(num_contributors),
                                    !.is_successful = is_successful,
                                    !.status = "Completed"]
                             \* ZkStateChange::ContractDone
                             /\ calculation_state' = "Done"
                             /\ secret_variables' = zk_state
                             /\ open_requests' = Remove(open_requests, r)
                             /\ Return("open_sum_variable")
                             /\ UNCHANGED <<env_vars, pending_inputs, computation,
                                            token_calls, block_time>>
               ELSE /\ secret_variables' = zk_state
                    /\ open_requests' = Remove(open_requests, r)
                    /\ Return("open_sum_variable")
                    /\ UNCHANGED <<env_vars, state, calculation_state, pending_inputs,
                                   computation, token_calls, block_time>>

zkc_withdraw_funds(sender) ==
    /\ variant = ZkCrowdfunding
    /\ IF \/ state.status # "Completed"
          \/ sender # state.owner
          \/ ~state.is_successful
          \/ ~state.total_raised.some
       THEN Panic("withdraw_funds", sender)
       ELSE LET amount == state.total_raised.val
                call == TokenCall("transfer", ContractAddress, state.owner, amount)
            IN  /\ Len(CallsBy("withdraw_funds")) < MaxWithdrawals
                /\ token_calls' = Append(token_calls,
                                         Issued(call, "withdraw_funds", "none"))
                /\ Returned("withdraw_funds", sender)
                /\ UNCHANGED <<env_vars, state, zk_vars, block_time>>

zkc_claim_refund(sender) ==
    /\ variant = ZkCrowdfunding
    /\ IF \/ state.status # "Completed"
          \/ state.is_successful
          \/ ~contains_key(state.contributor_var_ids, sender)
          \/ ~CanRead(get_variable(state.contributor_var_ids[sender]))
       THEN Panic("claim_refund", sender)
       ELSE LET variable == get_variable(state.contributor_var_ids[sender])
                contribution_amount == read_variable_u32_le(variable)
                call == TokenCall("transfer", ContractAddress, sender,
                                  contribution_amount)
            IN  /\ Len(CallsBy("claim_refund")) < MaxRefundClaims
                /\ token_calls' = Append(token_calls,
                                         Issued(call, "claim_refund", "none"))
                /\ Returned("claim_refund", sender)
                /\ UNCHANGED <<env_vars, state, zk_vars, block_time>>

verify_my_contribution(sender) ==
    /\ variant = ZkCrowdfunding
    /\ IF \/ state.status # "Completed"
          \/ ~contains_key(state.contributor_var_ids, sender)
       THEN Panic("verify_my_contribution", sender)
       ELSE /\ Returned("verify_my_contribution", sender)
            /\ UNCHANGED <<env_vars, state, zk_vars, token_calls, block_time>>

----------------------------------------------------------------------------
(* The campaign and its environment. *)

\* Block production time moves on between transactions.
Tick ==
    /\ variant = ZkCrowdfunding
    /\ block_time < MaxTime
    /\ block_time' = block_time + 1
    /\ UNCHANGED <<env_vars, state, zk_vars, token_calls, last>>

\* The state after construction. The contract is deployed at block time 0 and
\* the first transaction comes at block time 1. contracts/zk-crowdfund never
\* reads the data of a confirmed input, so one host stands for both there.
Init ==
    /\ variant \in {ZkCrowdfund, ZkCrowdfunding}
    /\ plain_inputs \in IF variant = ZkCrowdfund THEN {FALSE} ELSE BOOLEAN
    /\ block_time = 1
    /\ \E title \in Titles, description \in Descriptions,
          funding_target \in {Nat128(t) : t \in FundingTargets \cup {0}},
          deadline \in Deadlines :
          LET constructed ==
                IF variant = ZkCrowdfund
                THEN initialize(Owner, title, description, TokenAddress,
                                funding_target)
                ELSE zkc_initialize(Owner, title, description, TokenAddress,
                                    funding_target, deadline, 0)
          IN  /\ constructed # Aborted
              /\ state = constructed
    /\ calculation_state = "Waiting"
    /\ pending_inputs = <<>>
    /\ secret_variables = <<>>
    /\ computation = None
    /\ open_requests = <<>>
    /\ token_calls = <<>>
    /\ last = [op |-> "initialize", ok |-> TRUE]

Next ==
    \/ Tick
    \/ get_campaign_info
    \/ \E n \in 1..MaxOutputs : compute(n)
    \/ \E sender \in Addresses, amount \in SecretAmounts :
          add_contribution(sender, amount)
    \/ \E sender \in Addresses, amount \in TokenAmounts :
          contribute_tokens(sender, Nat128(amount))
    \/ \E k \in 1..Len(token_calls), success \in BOOLEAN :
          contribute_callback(k, success)
    \/ \E i \in 1..Len(pending_inputs) : inputted_variable(i)
    \/ \E sender \in Addresses : end_campaign(sender)
    \/ sum_compute_complete
    \/ refund_proof_complete
    \/ \E r \in 1..Len(open_requests) : open_variables(r)
    \/ \E sender \in Addresses : withdraw_funds(sender)
    \/ \E sender \in Addresses : claim_refund(sender)
    \/ \E k \in 1..Len(token_calls), success \in BOOLEAN :
          refund_callback(k, success)
    \/ \E sender \in Addresses : start_campaign(sender)
    \/ \E sender \in Addresses, amount \in SecretAmounts :
          zkc_add_contribution(sender, amount)
    \/ \E i \in 1..Len(pending_inputs) : zkc_inputted_variable(i)
    \/ \E sender \in Addresses : zkc_end_campaign(sender)
    \/ \E r \in 1..Len(open_requests) : open_sum_variable(r)
    \/ \E sender \in Addresses : zkc_withdraw_funds(sender)
    \/ \E sender \in Addresses : zkc_claim_refund(sender)
    \/ \E sender \in Addresses : verify_my_contribution(sender)

Spec == Init /\ [][Next]_vars

\* The campaign of contracts/zk-crowdfund over every kind of 32-bit secret a
\* contributor can submit as an Sbi32: small, large, and negative (all bits
\* set).
WideAmounts == {-1, 1, 1500}

InitWide ==
    /\ Init
    /\ variant = ZkCrowdfund

NextWide ==
    \/ \E sender \in Addresses, amount \in WideAmounts :
          add_contribution(sender, amount)
    \/ \E i \in 1..Len(pending_inputs) : inputted_variable(i)
    \/ \E sender \in Addresses : end_campaign(sender)
    \/ \E n \in 1..MaxOutputs : compute(n)
    \/ sum_compute_complete
    \/ \E r \in 1..Len(open_requests) : open_variables(r)

SpecWide == InitWide /\ [][NextWide]_vars

----------------------------------------------------------------------------
(* contracts/escrow/src/lib.rs: the escrow contract, deployed on its own.  *)
(* state is its ContractState, token_calls the token transfers it has      *)
(* asked for, block_time the block production time in milliseconds; the ZK *)
(* variables are not used.                                                 *)

MaxEscrowDeposits == 2  \* deposits asked for over a run
MaxHours == 2           \* block production time runs 0..MaxHours hours

STATE_CREATED == 0
STATE_AWAITING_APPROVAL == 1
STATE_APPROVED == 2

MillisPerHour == 60 * 60 * 1000

Escrow == "contracts/escrow"
EscrowAddress == "escrow"
EscrowCallers == {"alice", "bob", "carol"}
EscrowSenders == {"alice"}
EscrowReceivers == {"alice", "bob"}
EscrowApprovers == {"bob", "carol"}
\* Addresses of type PublicContract.
PublicContracts == {TokenAddress}
EscrowTokenTypes == {TokenAddress, "alice"}
HoursUntilDeadline == {0, 1}
EscrowAmounts == {0, 1}

\* #[init]
escrow_initialize(now, sender, receiver, approver, token_type, hours_until_deadline) ==
    IF token_type \notin PublicContracts
    THEN Aborted
    ELSE LET millis_until_deadline == hours_until_deadline * MillisPerHour
             end_time_millis == now + millis_until_deadline
         IN  [sender |-> sender,
              receiver |-> receiver,
              approver |-> approver,
              token_type |-> token_type,
              balance |-> Nat128(0),
              start_time_millis |-> now,
              end_time_millis |-> end_time_millis,
              status |-> STATE_CREATED]

\* The panics of deposit: TRUE when one of them is raised.
DepositRejected(sender) ==
    \/ sender # state.sender
    \/ state.status = STATE_APPROVED
    \/ block_time > state.end_time_millis

\* Shortname 0x01: asks the token for transfer_from(sender, contract, amount)
\* with a callback to deposit_callback carrying amount.
deposit(sender, amount) ==
    /\ variant = Escrow
    /\ IF DepositRejected(sender)
       THEN Panic("deposit", sender)
       ELSE LET call == TokenCall("transfer_from", sender, EscrowAddress, amount)
            IN  /\ Len(CallsBy("deposit")) < MaxEscrowDeposits
                /\ token_calls' = Append(token_calls, Issued(call, "deposit", "pending"))
                /\ Returned("deposit", sender)
                /\ UNCHANGED <<env_vars, state, zk_vars, block_time>>

\* Shortname 0x02: the token answers call k.
deposit_callback(k, success) ==
    /\ variant = Escrow
    /\ token_calls[k].origin = "deposit"
    /\ token_calls[k].cb = "pending"
    /\ token_calls' = [token_calls EXCEPT ![k].cb = IF success THEN "ok" ELSE "failed"]
    /\ IF ~success
       THEN /\ last' = [op |-> "deposit_callback", ok |-> FALSE, sender |-> TokenAddress]
            /\ UNCHANGED state
       ELSE LET amount == token_calls[k].amount
            IN  /\ state' = [state EXCEPT !.balance = Add128(@, amount),
                                          !.status = STATE_AWAITING_APPROVAL]
                /\ Return("deposit_callback")
    /\ UNCHANGED <<env_vars, zk_vars, block_time>>

\* The panics of approve.
ApproveRejected(sender) ==
    \/ sender # state.approver
    \/ block_time > state.end_time_millis
    \/ state.status # STATE_AWAITING_APPROVAL

\* Shortname 0x03.
escrow_approve(sender) ==
    /\ variant = Escrow
    /\ IF ApproveRejected(sender)
       THEN Panic("approve", sender)
       ELSE /\ state' = [state EXCEPT !.status = STATE_APPROVED]
            /\ Returned("approve", sender)
            /\ UNCHANGED <<env_vars, zk_vars, token_calls, block_time>>

\* The panics of claim.
ClaimRejected(sender) ==
    LET can_claim == sender = state.receiver \/ sender = state.sender
    IN  \/ ~can_claim
        \/ state.status = STATE_CREATED
        \/ ~Positive128(state.balance)
        \/ (sender = state.receiver /\ state.status # STATE_APPROVED)
        \/ /\ sender = state.sender
           /\ \/ state.status = STATE_APPROVED
              \/ block_time < state.end_time_millis

ClaimKeepsBalance(escrow) == escrow

\* new_state of claim: the balance is set to 0.
Claimed(escrow) == [escrow EXCEPT !.balance = Nat128(0)]

\* Shortname 0x04: transfers the balance to the caller.
claim(sender) ==
    /\ variant = Escrow
    /\ IF ClaimRejected(sender)
       THEN Panic("claim", sender)
       ELSE LET call == TokenCall("transfer", EscrowAddress, sender, state.balance)
            IN  /\ token_calls' = Append(token_calls, Issued(call, "claim", "none"))
                /\ state' = Claimed(state)
                /\ Returned("claim", sender)
                /\ UNCHANGED <<env_vars, zk_vars, block_time>>

\* An hour passes between transactions.
EscrowTick ==
    /\ variant = Escrow
    /\ block_time < MaxHours * MillisPerHour
    /\ block_time' = block_time + MillisPerHour
    /\ UNCHANGED <<env_vars, state, zk_vars, token_calls, last>>

\* The escrow is deployed at block time 0.
InitEscrow ==
    /\ variant = Escrow
    /\ plain_inputs = FALSE
    /\ block_time = 0
    /\ \E sender \in EscrowSenders, receiver \in EscrowReceivers,
          approver \in EscrowApprovers, token_type \in EscrowTokenTypes,
          hours_until_deadline \in HoursUntilDeadline :
          LET constructed == escrow_initialize(0, sender, receiver, approver,
                                               token_type, hours_until_deadline)
          IN  /\ constructed # Aborted
              /\ state = constructed
    /\ calculation_state = "Waiting"
    /\ pending_inputs = <<>>
    /\ secret_variables = <<>>
    /\ computation = None
    /\ open_requests = <<>>
    /\ token_calls = <<>>
    /\ last = [op |-> "initialize", ok |-> TRUE]

NextEscrow ==
    \/ EscrowTick
    \/ \E sender \in EscrowCallers, amount \in EscrowAmounts :
          deposit(sender, Nat128(amount))
    \/ \E k \in 1..Len(token_calls), success \in BOOLEAN : deposit_callback(k, success)
    \/ \E sender \in EscrowCallers : escrow_approve(sender)
    \/ \E sender \in EscrowCallers : claim(sender)

SpecEscrow == InitEscrow /\ [][NextEscrow]_vars

----------------------------------------------------------------------------
(* contracts/mpc-20-token/src/lib.rs: the MPC-20 token, deployed on its    *)
(* own. state is its TokenState; balances and allowed are maps, held as    *)
(* functions on the keys they contain. The transfer rules are those of     *)
(* AbstractTokenState, which reaches the maps only through update_balance, *)
(* balance_of, allowance and update_allowance.                             *)

MaxSupply == 2      \* the largest total_supply a token is created with
MaxAllowance == 2   \* allowances are approved up to this amount
MaxTransfers == 2   \* the longest list given to a bulk transfer

Mpc20Token == "contracts/mpc-20-token"
TokenHolders == {"alice", "bob"}
TokenSupplies == {0, MaxSupply}
TokenValues == 0..MaxAllowance
Deltas == {-1, 1}
AllowedAddress(owner, spender) == [owner |-> owner, spender |-> spender]
\* The Transfer lists a bulk transfer is called with.
RECURSIVE TransferLists(_)
TransferLists(n) ==
    IF n = 0 THEN {<<>>}
    ELSE LET shorter == TransferLists(n - 1)
         IN  shorter \cup
             {Append(l, [to |-> to, amount |-> amount]) :
                 l \in {x \in shorter : Len(x) = n - 1},
                 to \in TokenHolders, amount \in {0, 1}}

\* AvlTreeMap::get and AvlTreeMap::remove
get(map, key) == IF key \in DOMAIN map THEN Some(map[key]) ELSE None
remove(map, key) == [k \in DOMAIN map \ {key} |-> map[k]]
unwrap_or(option, default) == IF option.some THEN option.val ELSE default

InsertAlways(map, key, value) == insert(map, key, value)

\* BalanceMap::insert_balance
insert_balance(map, key, value) ==
    LET zero == value - value
    IN  IF value = zero THEN remove(map, key) ELSE insert(map, key, value)

update_balance(token, owner, amount) ==
    [token EXCEPT !.balances = insert_balance(@, owner, amount)]

balance_of(token, owner) == unwrap_or(get(token.balances, owner), 0)

allowance(token, owner, spender) ==
    unwrap_or(get(token.allowed, AllowedAddress(owner, spender)), 0)

update_allowance(token, owner, spender, amount) ==
    [token EXCEPT !.allowed = insert_balance(@, AllowedAddress(owner, spender), amount)]

\* AbstractTokenState::transfer: throws unless the sender holds amount.
TokenTransfer(token, sender, to, amount) ==
    IF token = Aborted \/ balance_of(token, sender) < amount
    THEN Aborted
    ELSE LET debited == update_balance(token, sender, balance_of(token, sender) - amount)
         IN  update_balance(debited, to, balance_of(debited, to) + amount)

\* AbstractTokenState::transfer_from: throws unless from approved amount for
\* the sender and holds it.
TokenTransferFrom(token, sender, from, to, amount) ==
    IF token = Aborted \/ allowance(token, from, sender) < amount
    THEN Aborted
    ELSE TokenTransfer(update_allowance(token, from, sender,
                                        allowance(token, from, sender) - amount),
                       from, to, amount)

\* AbstractTokenState::update_allowance_relative: fails when the allowance
\* would become negative.
update_allowance_relative(token, owner, spender, delta) ==
    IF allowance(token, owner, spender) + delta < 0
    THEN Aborted
    ELSE update_allowance(token, owner, spender, allowance(token, owner, spender) + delta)

\* #[init]
token_initialize(sender, name, symbol, decimals, total_supply) ==
    LET initial_state == [name |-> name,
                          symbol |-> symbol,
                          decimals |-> decimals,
                          owner |-> sender,
                          total_supply |-> total_supply,
                          balances |-> <<>>,
                          allowed |-> <<>>]
    IN  update_balance(initial_state, sender, total_supply)

\* The invocation op by sender leaves the token in state result, or panics.
TokenAction(op, sender, result) ==
    IF result = Aborted
    THEN Panic(op, sender)
    ELSE /\ state' = result
         /\ Returned(op, sender)
         /\ UNCHANGED <<env_vars, zk_vars, token_calls, block_time>>

\* Shortname 0x01.
transfer(sender, to, amount) ==
    /\ variant = Mpc20Token
    /\ TokenAction("transfer", sender, TokenTransfer(state, sender, to, amount))

RECURSIVE TransferAll(_, _, _)
TransferAll(token, sender, transfers) ==
    IF transfers = <<>> THEN token
    ELSE TransferAll(TokenTransfer(token, sender, Head(transfers).to,
                                   Head(transfers).amount),
                     sender, Tail(transfers))

\* Shortname 0x02.
bulk_transfer(sender, transfers) ==
    /\ variant = Mpc20Token
    /\ TokenAction("bulk_transfer", sender, TransferAll(state, sender, transfers))

\* Shortname 0x03.
transfer_from(sender, from, to, amount) ==
    /\ variant = Mpc20Token
    /\ TokenAction("transfer_from", sender,
                   TokenTransferFrom(state, sender, from, to, amount))

RECURSIVE TransferAllFrom(_, _, _, _)
TransferAllFrom(token, sender, from, transfers) ==
    IF transfers = <<>> THEN token
    ELSE TransferAllFrom(TokenTransferFrom(token, sender, from, Head(transfers).to,
                                           Head(transfers).amount),
                         sender, from, Tail(transfers))

\* Shortname 0x04.
bulk_transfer_from(sender, from, transfers) ==
    /\ variant = Mpc20Token
    /\ TokenAction("bulk_transfer_from", sender,
                   TransferAllFrom(state, sender, from, transfers))

\* Shortname 0x05.
approve(sender, spender, amount) ==
    /\ variant = Mpc20Token
    /\ TokenAction("approve", sender, update_allowance(state, sender, spender, amount))

\* Shortname 0x07.
approve_relative(sender, spender, delta) ==
    /\ variant = Mpc20Token
    /\ allowance(state, sender, spender) + delta <= MaxAllowance
    /\ TokenAction("approve_relative", sender,
                   update_allowance_relative(state, sender, spender, delta))

InitToken ==
    /\ variant = Mpc20Token
    /\ plain_inputs = FALSE
    /\ block_time = 0
    /\ \E sender \in TokenHolders, total_supply \in TokenSupplies :
          state = token_initialize(sender, "MyToken", "HIX", 8, total_supply)
    /\ calculation_state = "Waiting"
    /\ pending_inputs = <<>>
    /\ secret_variables = <<>>
    /\ computation = None
    /\ open_requests = <<>>
    /\ token_calls = <<>>
    /\ last = [op |-> "initialize", ok |-> TRUE]

NextToken ==
    \/ \E sender \in TokenHolders, to \in TokenHolders, amount \in TokenValues :
          transfer(sender, to, amount)
    \/ \E sender \in TokenHolders, transfers \in TransferLists(MaxTransfers) :
          bulk_transfer(sender, transfers)
    \/ \E sender \in TokenHolders, from \in TokenHolders, to \in TokenHolders,
          amount \in TokenValues :
          transfer_from(sender, from, to, amount)
    \/ \E sender \in TokenHolders, from \in TokenHolders,
          transfers \in TransferLists(MaxTransfers) :
          bulk_transfer_from(sender, from, transfers)
    \/ \E sender \in TokenHolders, spender \in TokenHolders, amount \in TokenValues :
          approve(sender, spender, amount)
    \/ \E sender \in TokenHolders, spender \in TokenHolders, delta \in Deltas :
          approve_relative(sender, spender, delta)

SpecToken == InitToken /\ [][NextToken]_vars

----------------------------------------------------------------------------
(* Properties. *)

StatusRank(status) ==
    CASE status = "Setup" -> 0
      [] status = "Active" -> 1
      [] status = "Computing" -> 2
      [] status = "Completed" -> 3

\* The contributions the campaign computation ran over: the Contribution
\* variables confirmed before its output variables were made.
Contributions ==
    LET outs == {i \in 1..Len(secret_variables) :
                    secret_variables[i].metadata.kind \notin {"Contribution", "RefundProof"}}
    IN  SelectSeq(secret_variables,
            LAMBDA v : /\ v.metadata.kind = "Contribution"
                       /\ \A i \in outs : v.id < i)

\* The true aggregate S, as a number.
RECURSIVE SumValues(_)
SumValues(s) == IF s = <<>> THEN 0 ELSE Head(s).value + SumValues(Tail(s))

TrueTotal == SumValues(Contributions)

\* C1: in contracts/zk-crowdfund, whenever is_successful is false the field
\* total_raised is None.
C1_PrivacyInvariant ==
    (variant = ZkCrowdfund /\ ~state.is_successful) => state.total_raised = None

\* A campaign of contracts/zk-crowdfund that open_variables completed as failed.
C1_Witness ==
    /\ variant = ZkCrowdfund
    /\ state.status = "Completed"
    /\ ~state.is_successful
    /\ state.total_raised = None
    /\ last = [op |-> "open_variables", ok |-> TRUE]

\* C2: once withdraw_funds has succeeded, no later withdraw_funds issues a
\* transfer: at most one withdrawal transfer is ever issued.
C2_NoDoubleWithdrawal ==
    Len(CallsBy("withdraw_funds")) <= 1

\* C3: in both variants the status of a campaign only moves forward along
\* Setup, Active, Computing, Completed.
C3_StatusMonotone ==
    [][StatusRank(state'.status) >= StatusRank(state.status)]_vars

\* A campaign that went all the way to Completed.
C3_Witness ==
    /\ state.status = "Completed"
    /\ last.op \in {"open_variables", "open_sum_variable"}
    /\ last.ok

\* C4: in contracts/zk-crowdfund, once end_campaign, sum_compute_complete and
\* open_variables have run over contributions summing to S with funding target
\* T, the campaign is Completed with is_successful = (S >= T), and
\* total_raised is Some(S) when S >= T and None otherwise.
C4_EndToEndOutcome ==
    (variant = ZkCrowdfund /\ state.status = "Completed") =>
        LET S == Nat128(TrueTotal)
        IN  /\ state.is_successful = Ge128(S, state.funding_target)
            /\ state.total_raised =
                  (IF Ge128(S, state.funding_target) THEN Some(S) ELSE None)

\* The variables the running computation was given.
ComputationInputs ==
    SubSeq(secret_variables, 1, computation.val.outputs[1] - 1)

\* C5: for contributions summing to S and the campaign's funding target T,
\* threshold_check_and_conditional_reveal returns threshold_met = 1 exactly
\* when S >= T, and conditional_total = S when it is met and 0 otherwise.
C5_ThresholdCorrect ==
    (/\ variant = ZkCrowdfund
     /\ calculation_state = "Output"
     /\ computation.val.function = "threshold_check_and_conditional_reveal") =>
        LET result == threshold_check_and_conditional_reveal(ComputationInputs)
            met == Ge128(Nat128(TrueTotal), state.funding_target)
        IN  /\ result[2] = (IF met THEN 1 ELSE 0)
            /\ result[3] = (IF met THEN TrueTotal ELSE 0)

\* C6: for a campaign whose contributions sum to S below the funding target,
\* no request to open asks for an output variable whose plaintext is S.
C6_NoAggregateDeclassified ==
    \A r \in 1..Len(open_requests) : \A k \in 1..Len(open_requests[r]) :
        LET v == secret_variables[open_requests[r][k]]
        IN  (/\ v.metadata.kind \notin {"Contribution", "RefundProof"}
             /\ ~Ge128(Nat128(TrueTotal), state.funding_target))
                => v.value # TrueTotal

\* C7: the compute-complete hook of contracts/zk-crowdfund asks to open
\* exactly one variable, the one that holds the threshold_met flag.
C7_OpensOnlyThresholdFlag ==
    (variant = ZkCrowdfund /\ last = [op |-> "sum_compute_complete", ok |-> TRUE]) =>
        LET requested == open_requests[Len(open_requests)]
        IN  /\ Len(requested) = 1
            /\ secret_variables[requested[1]].value =
                  threshold_check_and_conditional_reveal(
                      SubSeq(secret_variables, 1, requested[1] - 1))[2]

\* C8: no token call made while reading a contribution variable carries the
\* plaintext of that one contributor's contribution as its amount.
C8_ContributionsNeverExposed ==
    \A k \in 1..Len(token_calls) : \A i \in 1..Len(secret_variables) :
        LET call == token_calls[k]
            v == secret_variables[i]
        IN  (/\ v.metadata.kind = "Contribution"
             /\ call.origin \in {"inputted_variable", "claim_refund"}
             /\ v.owner \in {call.from, call.to})
                => call.amount # Nat128(v.value)

C10_DepositNeedsCommitment ==
    \A k \in 1..Len(token_calls) :
        token_calls[k].origin = "contribute_tokens" =>
            \/ \E i \in 1..Len(secret_variables) :
                  /\ secret_variables[i].metadata.kind = "Contribution"
                  /\ secret_variables[i].owner = token_calls[k].from
            \/ \E i \in 1..Len(pending_inputs) :
                  pending_inputs[i].owner = token_calls[k].from

\* A step in which the callback of a pending token call arrives.
CallbackStep(k) ==
    /\ k \in 1..Len(token_calls)
    /\ Len(token_calls') = Len(token_calls)
    /\ token_calls[k].cb = "pending"
    /\ token_calls'[k].cb # "pending"

\* C11: contribute_callback and refund_callback abort exactly when the token
\* reports success = false, and otherwise return: either way the contract
\* state and the ZK state stay as they were and no token call is added.
C11_CallbackAbortsOnFailure ==
    [][\A k \in 1..Len(token_calls) :
          CallbackStep(k) =>
            /\ last'.op \in {"contribute_callback", "refund_callback"}
            /\ last'.ok = (token_calls'[k].cb = "ok")
            /\ state' = state
            /\ zk_vars' = zk_vars
            /\ token_calls' = [token_calls EXCEPT ![k].cb = token_calls'[k].cb]]_vars

\* A callback that arrived with success = false and aborted.
C11_Witness ==
    /\ \E k \in 1..Len(token_calls) : token_calls[k].cb = "failed"
    /\ last.op \in {"contribute_callback", "refund_callback"}
    /\ ~last.ok

\* C12: withdraw_funds returns only for the owner of a Completed, successful
\* campaign; every other withdraw_funds fails and adds no token call.
C12_WithdrawPreconditions ==
    [][(last'.op = "withdraw_funds" /\ <<last, token_calls>>' # <<last, token_calls>>) =>
          IF last'.ok
          THEN /\ last'.sender = state.owner
               /\ state.status = "Completed"
               /\ state.is_successful
               /\ state' = state
          ELSE /\ \/ last'.sender # state.owner
                  \/ state.status # "Completed"
                  \/ ~state.is_successful
               /\ token_calls' = token_calls]_vars

\* Somebody else than the owner tried to withdraw from a Completed, successful
\* campaign and was rejected.
C12_Witness ==
    /\ last.op = "withdraw_funds"
    /\ ~last.ok
    /\ last.sender # state.owner
    /\ state.status = "Completed"
    /\ state.is_successful
    /\ CallsBy("withdraw_funds") = <<>>

\* C13: in contracts/zk-crowdfund, end_campaign returns only for the owner,
\* on an Active campaign, with the computation engine Waiting; with n >= 1
\* committed Contribution variables it sets status to Computing and
\* num_contributors to Some(n), starts one computation whose hook is
\* sum_compute_complete, and changes nothing else.
C13_EndCampaignEffect ==
    [][(/\ variant = ZkCrowdfund
        /\ last'.op = "end_campaign"
        /\ last'.ok
        /\ <<last, state>>' # <<last, state>>) =>
          /\ last'.sender = state.owner
          /\ state.status = "Active"
          /\ calculation_state = "Waiting"
          /\ computation = None
          /\ CountContributions >= 1
          /\ state' = [state EXCEPT !.status = "Computing",
                                    !.num_contributors = Some(CountContributions)]
          /\ calculation_state' = "Calculating"
          /\ computation'.some
          /\ computation'.val.on_complete = "sum_compute_complete"
          /\ UNCHANGED <<pending_inputs, secret_variables, open_requests,
                         token_calls>>]_vars

\* end_campaign has just returned on a campaign of contracts/zk-crowdfund.
C13_Witness ==
    /\ variant = ZkCrowdfund
    /\ last = [op |-> "end_campaign", ok |-> TRUE, sender |-> state.owner]
    /\ state.status = "Computing"
    /\ state.num_contributors = Some(CountContributions)
    /\ calculation_state = "Calculating"

\* A step that starts a computation: the new one has no output variables yet.
StartsComputation ==
    /\ computation' # computation
    /\ computation'.some
    /\ computation'.val.outputs = <<>>

\* C14: a computation is started only by an end_campaign or claim_refund that
\* found the computation engine Waiting with no computation in flight, and an
\* end_campaign or claim_refund invoked while a computation is Calculating or
\* has Output pending is rejected and leaves that computation as it is.
C14_OneComputationInFlight ==
    [][/\ StartsComputation =>
            /\ calculation_state = "Waiting"
            /\ computation = None
            /\ last'.op \in {"end_campaign", "claim_refund"}
            /\ last'.ok
       /\ (/\ last' # last
           /\ last'.op \in {"end_campaign", "claim_refund"}
           /\ calculation_state \in {"Calculating", "Output"}) =>
            /\ ~last'.ok
            /\ computation' = computation
            /\ calculation_state' = calculation_state]_vars

\* A claim_refund on a Completed, failed campaign that was rejected only
\* because an earlier refund computation had not completed.
C14_Witness ==
    /\ last.op = "claim_refund"
    /\ ~last.ok
    /\ state.status = "Completed"
    /\ ~state.is_successful
    /\ calculation_state \in {"Calculating", "Output"}
    /\ computation.some
    /\ computation.val.on_complete = "refund_proof_complete"

\* C15: no step of either campaign contract changes owner, token_address,
\* funding_target, title or description.
C15_ImmutableFields ==
    [][/\ state'.owner = state.owner
       /\ state'.token_address = state.token_address
       /\ state'.funding_target = state.funding_target
       /\ state'.title = state.title
       /\ state'.description = state.description]_vars

\* A campaign that ran to Completed and made token calls still has the fields
\* it was constructed with.
C15_Witness ==
    /\ state.status = "Completed"
    /\ token_calls # <<>>
    /\ state.owner = Owner
    /\ state.token_address = TokenAddress
    /\ state.funding_target \in {Nat128(t) : t \in FundingTargets}

\* C16: initialize of contracts/zk-crowdfund fails when the title is empty,
\* the description is empty or the funding target is 0, and otherwise gives a
\* state with owner = sender, status Active, total_raised None,
\* num_contributors None and is_successful false.
C16_Initialize ==
    /\ \A sender \in Addresses, title \in Titles, description \in Descriptions,
          funding_target \in {Nat128(t) : t \in FundingTargets \cup {0}} :
          LET constructed == initialize(sender, title, description, TokenAddress,
                                        funding_target)
          IN  IF title = "" \/ description = "" \/ funding_target = Nat128(0)
              THEN constructed = Aborted
              ELSE /\ constructed # Aborted
                   /\ constructed.owner = sender
                   /\ constructed.status = "Active"
                   /\ constructed.total_raised = None
                   /\ constructed.num_contributors = None
                   /\ ~constructed.is_successful
    /\ (variant = ZkCrowdfund /\ last.op = "initialize") =>
          /\ state.title # ""
          /\ state.description # ""
          /\ Positive128(state.funding_target)
          /\ state.owner = Owner
          /\ state.status = "Active"
          /\ state.total_raised = None
          /\ state.num_contributors = None
          /\ ~state.is_successful

\* A campaign of contracts/zk-crowdfund as initialize left it.
C16_Witness ==
    /\ variant = ZkCrowdfund
    /\ last = [op |-> "initialize", ok |-> TRUE]
    /\ state = initialize(Owner, "Campaign", "A campaign", TokenAddress,
                          state.funding_target)

\* C17: when the SumResult variable opens to fewer than four bytes, the
\* variables-opened handler does not abort on it.
C17_DefensiveDecode ==
    \A r \in 1..Len(open_requests) :
        LET opened_variable == secret_variables[open_requests[r][1]]
        IN  (/\ opened_variable.metadata.kind = "SumResult"
             /\ opened_variable.width < 4) =>
                ~(/\ last.op \in {"open_variables", "open_sum_variable"}
                  /\ ~last.ok)

\* The actions, which users invoke (the hooks and callbacks are the rest).
Actions ==
    {"add_contribution", "contribute_tokens", "end_campaign", "withdraw_funds",
     "claim_refund", "start_campaign", "verify_my_contribution"}

\* C18: an action invocation that is rejected leaves the contract state and
\* the ZK state as they were, and adds no token call.
C18_RejectionChangesNothing ==
    [][(last' # last /\ last'.op \in Actions /\ ~last'.ok) =>
          /\ state' = state
          /\ zk_vars' = zk_vars
          /\ token_calls' = token_calls]_vars

\* contribute_tokens was rejected for a zero amount on an Active campaign.
C18_Witness ==
    /\ last.op = "contribute_tokens"
    /\ ~last.ok
    /\ state.status = "Active"
    /\ token_calls = <<>>

\* C19: once a campaign is Completed, every later step leaves status
\* Completed and is_successful as it was.
C19_CompletedIsTerminal ==
    [][state.status = "Completed" =>
          /\ state'.status = "Completed"
          /\ state'.is_successful = state.is_successful]_vars

\* Actions and callbacks went on after the campaign was Completed.
C19_Witness ==
    /\ state.status = "Completed"
    /\ token_calls # <<>>
    /\ last.op \in {"end_campaign", "withdraw_funds", "claim_refund",
                    "refund_proof_complete", "refund_callback"}

\* C20: the threshold computation returns [threshold flag, conditional total,
\* actual total], the contract declares one output metadata entry per returned
\* value, and the variable the contract decodes as the sum carries the sum.
C20_OutputOrder ==
    (/\ variant = ZkCrowdfund
     /\ calculation_state = "Output"
     /\ computation.val.function = "threshold_check_and_conditional_reveal") =>
        LET result == threshold_check_and_conditional_reveal(ComputationInputs)
            met == Ge128(Nat128(TrueTotal), state.funding_target)
        IN  /\ Len(computation.val.output_metadata) = Len(result)
            /\ result = <<IF met THEN 1 ELSE 0,
                          IF met THEN TrueTotal ELSE 0,
                          TrueTotal>>
            /\ \A i \in 1..Len(computation.val.outputs) :
                  LET variable == secret_variables[computation.val.outputs[i]]
                  IN  variable.metadata.kind = "SumResult" =>
                          variable.value = TrueTotal

\* C21: every transfer that contracts/zk-crowdfund issues for a raw amount x
\* decoded from an opened variable carries x * 10^12: the withdrawal of the
\* decoded total as well as the refund of a decoded RefundProof.
C21_UnitConversion ==
    variant = ZkCrowdfund =>
        \A k \in 1..Len(token_calls) :
            LET call == token_calls[k]
            IN  /\ call.origin = "withdraw_funds" =>
                      /\ state.total_raised.some
                      /\ call.amount = TimesTokenUnit(state.total_raised.val)
                /\ call.origin = "open_variables" =>
                      \E i \in 1..Len(secret_variables) :
                          /\ secret_variables[i].metadata.kind = "RefundProof"
                          /\ secret_variables[i].metadata.owner = call.to
                          /\ call.amount =
                                TimesTokenUnit(Nat128(secret_variables[i].value))

\* C22: get_campaign_info changes nothing, the total_raised it returns is None
\* unless the campaign is Completed and successful, and what it returns has
\* the public fields of the campaign only.
C22_ReadOnlyProjection ==
    [][(last'.op = "get_campaign_info" /\ last' # last) =>
          /\ state' = state
          /\ zk_vars' = zk_vars
          /\ token_calls' = token_calls
          /\ ~(state.status = "Completed" /\ state.is_successful)
                => last'.info.total_raised = None
          /\ DOMAIN last'.info =
                {"owner", "title", "description", "token_address",
                 "funding_target", "status", "total_raised",
                 "num_contributors", "is_successful"}]_vars

\* get_campaign_info answered for a Completed campaign that failed.
C22_Witness ==
    /\ last.op = "get_campaign_info"
    /\ state.status = "Completed"
    /\ ~state.is_successful
    /\ last.info.total_raised = None
    /\ last.info.status = "Completed"

C24_ContributorCount ==
    /\ state.status \in {"Setup", "Active"} => state.num_contributors = None
    /\ state.status \in {"Computing", "Completed"} =>
          /\ state.num_contributors.some
          /\ state.num_contributors.val >= 1

\* A campaign of zk-crowdfunding whose computation was started with two
\* contributions counted.
C24_Witness ==
    /\ variant = ZkCrowdfunding
    /\ state.status = "Computing"
    /\ state.num_contributors = Some(2)
    /\ last.op = "end_campaign"

\* C27: in zk-crowdfunding end_campaign succeeds exactly when the campaign is
\* Active, the engine is Waiting, at least one contribution is confirmed, and
\* the caller is the owner (at any block time) or the block time is past the
\* deadline (any caller).
C27_EndCampaignAuthorization ==
    [][(variant = ZkCrowdfunding /\ last'.op = "end_campaign" /\ last' # last) =>
          (last'.ok <=>
              /\ state.status = "Active"
              /\ calculation_state = "Waiting"
              /\ CountContributions > 0
              /\ (last'.sender = state.owner \/ block_time > state.deadline))]_vars

\* A caller other than the owner has ended the campaign after the deadline.
C27_Witness ==
    /\ variant = ZkCrowdfunding
    /\ last.op = "end_campaign" /\ last.ok
    /\ last.sender # state.owner
    /\ block_time > state.deadline
    /\ state.status = "Computing"

\* C25: the total the threshold check uses is the arithmetic sum of the
\* Contribution values: the threshold_met and conditional_total outputs of
\* threshold_check_and_conditional_reveal are those of the true sum of the
\* Sbi32 inputs, compared with the same target.
C25_TotalIsArithmeticSum ==
    (/\ variant = ZkCrowdfund
     /\ calculation_state = "Output"
     /\ computation.val.function = "threshold_check_and_conditional_reveal") =>
        LET met == TrueTotal >= load_funding_target_from_metadata
        IN  \A i \in Range(computation.val.outputs) :
                LET variable == secret_variables[i]
                IN  /\ variable.output = 2 => variable.value = (IF met THEN 1 ELSE 0)
                    /\ variable.output = 3 =>
                          variable.value = (IF met THEN TrueTotal ELSE 0)

\* C26: in zk-crowdfunding at most one Contribution variable owned by any one
\* address is ever confirmed.
C26_OneContributionPerAddress ==
    variant = ZkCrowdfunding =>
        \A address \in Addresses :
            Len(SelectSeq(secret_variables,
                    LAMBDA v : /\ v.metadata.kind = "Contribution"
                               /\ v.owner = address)) <= 1

\* C28: a deposit of the escrow is accepted only from the sender and only
\* while the status is STATE_CREATED.
C28_DepositOnlyWhenCreated ==
    [][(variant = Escrow /\ last'.op = "deposit" /\ last'.ok
            /\ <<last, token_calls>>' # <<last, token_calls>>) =>
          /\ last'.sender = state.sender
          /\ state.status = STATE_CREATED]_vars

\* C29: a claim of the escrow succeeds only for the receiver when the status
\* is STATE_APPROVED, or for the sender when the status is
\* STATE_AWAITING_APPROVAL and the block time is after end_time_millis.
C29_ClaimAuthorization ==
    [][(variant = Escrow /\ last'.op = "claim" /\ last'.ok
            /\ <<last, token_calls>>' # <<last, token_calls>>) =>
          \/ /\ last'.sender = state.receiver
             /\ state.status = STATE_APPROVED
          \/ /\ last'.sender = state.sender
             /\ state.status = STATE_AWAITING_APPROVAL
             /\ block_time > state.end_time_millis]_vars

\* C30: in every reachable state of the MPC-20 token neither balances nor
\* allowed holds an entry with value 0: an account (or an owner and spender)
\* is a key of its map exactly when its balance (or allowance) is not 0, and
\* balance_of and allowance answer 0 for the keys that are absent.
C30_OnlyNonZeroEntries ==
    variant = Mpc20Token =>
        /\ \A key \in DOMAIN state.balances : state.balances[key] # 0
        /\ \A key \in DOMAIN state.allowed : state.allowed[key] # 0
        /\ \A owner \in TokenHolders :
              /\ (balance_of(state, owner) = 0) = (owner \notin DOMAIN state.balances)
              /\ \A spender \in TokenHolders :
                    (allowance(state, owner, spender) = 0)
                        = (AllowedAddress(owner, spender) \notin DOMAIN state.allowed)

\* The creator of a token with a positive supply has spent all of it through
\* an allowance that is used up: both entries are gone from the maps.
C30_Witness ==
    /\ variant = Mpc20Token
    /\ state.total_supply > 0
    /\ last.op = "transfer_from" /\ last.ok
    /\ state.owner \notin DOMAIN state.balances
    /\ AllowedAddress(state.owner, last.sender) \notin DOMAIN state.allowed
    /\ last.sender # state.owner
    /\ balance_of(state, last.sender) = state.total_supply

\* C31: in contracts/zk-crowdfund add_contribution succeeds only when the
\* status is Active; it then leaves the contract state as it was, issues no
\* token call, and defines exactly one secret input whose metadata is
\* Contribution with the caller as owner and the block time as timestamp.
C31_AddContributionEffect ==
    [][(/\ variant = ZkCrowdfund
        /\ last'.op = "add_contribution" /\ last'.ok
        /\ <<last, pending_inputs>>' # <<last, pending_inputs>>) =>
          /\ state.status = "Active"
          /\ state' = state
          /\ token_calls' = token_calls
          /\ secret_variables' = secret_variables
          /\ Len(pending_inputs') = Len(pending_inputs) + 1
          /\ SubSeq(pending_inputs', 1, Len(pending_inputs)) = pending_inputs
          /\ pending_inputs'[Len(pending_inputs')].owner = last'.sender
          /\ pending_inputs'[Len(pending_inputs')].metadata =
                [kind |-> "Contribution", owner |-> last'.sender,
                 timestamp |-> block_time]]_vars

\* A second secret input has been defined, by alice, while Active.
C31_Witness ==
    /\ variant = ZkCrowdfund
    /\ last = [op |-> "add_contribution", ok |-> TRUE, sender |-> "alice"]
    /\ state.status = "Active"
    /\ Len(pending_inputs) = 2
    /\ pending_inputs[2].metadata.owner = "alice"
    /\ token_calls = <<>>

C33_StartCampaignGate ==
    [][(variant = ZkCrowdfunding /\ last' # last) =>
          /\ (last'.op = "start_campaign" /\ last'.ok) =>
                /\ last'.sender = state.owner
                /\ state.status = "Setup"
                /\ state'.status = "Active"
          /\ (state.status = "Setup"
                 /\ last'.op \in {"add_contribution", "end_campaign"}) => ~last'.ok]_vars

\* The owner has started the campaign after a contribution and an
\* end_campaign were refused in Setup.
C33_Witness ==
    /\ variant = ZkCrowdfunding
    /\ last = [op |-> "start_campaign", ok |-> TRUE, sender |-> Owner]
    /\ state.status = "Active"
    /\ pending_inputs = <<>>
    /\ secret_variables = <<>>

\* The tokens moved into the contract: the amounts of the contribute_tokens
\* calls whose callback reported success, added up.
RECURSIVE DepositedTokens(_)
DepositedTokens(calls) ==
    IF calls = <<>> THEN Nat128(0)
    ELSE LET call == Head(calls)
         IN  IF call.origin = "contribute_tokens" /\ call.cb = "ok"
             THEN Add128(call.amount, DepositedTokens(Tail(calls)))
             ELSE DepositedTokens(Tail(calls))

\* C34: in contracts/zk-crowdfund the amount of every transfer that
\* withdraw_funds issues is at most the tokens moved into the contract by
\* contribute_tokens calls whose callback reported success.
C34_WithdrawalSolvency ==
    variant = ZkCrowdfund =>
        \A k \in 1..Len(token_calls) :
            token_calls[k].origin = "withdraw_funds" =>
                Ge128(DepositedTokens(SubSeq(token_calls, 1, k - 1)),
                      token_calls[k].amount)

\* The refund transfers issued so far to one address: by claim_refund in
\* zk-crowdfunding, by the RefundProof branch of open_variables in
\* contracts/zk-crowdfund.
RefundsTo(address) ==
    SelectSeq(token_calls,
        LAMBDA c : /\ c.origin \in {"claim_refund", "open_variables"}
                   /\ c.fn = "transfer"
                   /\ c.to = address)

\* C35: in both variants at most one refund transfer is ever issued to any
\* one address.
C35_OneRefundPerAddress ==
    \A address \in Addresses : Len(RefundsTo(address)) <= 1

\* The refund transfers issued so far, to anyone.
RefundTransfers == CallsBy("claim_refund") \o CallsBy("open_variables")

\* C36: no execution holds both a successful withdraw_funds and a refund
\* transfer: a withdrawal has been issued only in a Completed successful
\* campaign, a refund only in a Completed failed one.
C36_WithdrawalExcludesRefund ==
    /\ CallsBy("withdraw_funds") # <<>> =>
          (state.status = "Completed" /\ state.is_successful)
    /\ RefundTransfers # <<>> =>
          (state.status = "Completed" /\ ~state.is_successful)
    /\ ~(CallsBy("withdraw_funds") # <<>> /\ RefundTransfers # <<>>)

\* A refund has been paid and the owner's withdraw_funds is then refused.
C36_Witness ==
    /\ RefundTransfers # <<>>
    /\ last = [op |-> "withdraw_funds", ok |-> FALSE, sender |-> Owner]

\* C37: the num_contributors that end_campaign recorded is the number of
\* Contribution variables the computation summed, and the value stored when
\* the result is opened equals it.
C37_ContributorCountStable ==
    [][(state.status = "Computing" /\ state'.status = "Completed") =>
          /\ state'.num_contributors = state.num_contributors
          /\ state.num_contributors = Some(Len(Contributions))]_vars

\* C38: once the status of the escrow is STATE_APPROVED it stays
\* STATE_APPROVED.
C38_ApprovalIsFinal ==
    [][(variant = Escrow /\ state.status = STATE_APPROVED) =>
          state'.status = STATE_APPROVED]_vars

\* The amounts of the calls in a sequence, added up.
RECURSIVE SumAmounts(_)
SumAmounts(calls) ==
    IF calls = <<>> THEN Nat128(0)
    ELSE Add128(Head(calls).amount, SumAmounts(Tail(calls)))

\* What the successful deposit callbacks have brought in, and what claim has
\* transferred out.
EscrowDeposited ==
    SumAmounts(SelectSeq(token_calls, LAMBDA c : c.origin = "deposit" /\ c.cb = "ok"))
EscrowPaidOut == SumAmounts(CallsBy("claim"))

\* C39: the balance of the escrow is what the successful deposit callbacks
\* brought in less what claim transferred out, and each successful claim
\* transfers exactly the balance and leaves it 0.
C39_EscrowConservation ==
    [][variant = Escrow =>
          /\ Add128(state'.balance, EscrowPaidOut') = EscrowDeposited'
          /\ (last'.op = "claim" /\ last'.ok /\ token_calls' # token_calls) =>
                /\ token_calls' = Append(token_calls, token_calls'[Len(token_calls')])
                /\ token_calls'[Len(token_calls')].amount = state.balance
                /\ token_calls'[Len(token_calls')].to = last'.sender
                /\ state'.balance = Nat128(0)]_vars

\* Two deposits of 1 have succeeded and one claim has paid out 2.
C39_Witness ==
    /\ variant = Escrow
    /\ last.op = "claim" /\ last.ok
    /\ EscrowDeposited = Nat128(2)
    /\ EscrowPaidOut = Nat128(2)
    /\ state.balance = Nat128(0)

====
